---- MODULE Spec2Model ----
(***************************************************************************)
(* Model of the skill manager's core: the skill registry and content       *)
(* store, conflict detection, the conflict resolver and the merge engine.  *)
(*                                                                         *)
(* Text is modelled as a sequence of characters; a character is a string   *)
(* of length one (the bullet U+2022 is the string "U+2022").  Identifiers  *)
(* (Uuid::new_v4) are drawn from counters so that every new record gets an *)
(* id that was never used before.  The wall clock (Utc::now) is the        *)
(* variable now; it advances by one with every service call.               *)
(***************************************************************************)
EXTENDS Integers, Sequences, FiniteSets, TLC

\* ------------------------------------------------------------------ bounds

\* Number of service calls that read the clock (the clock stops there).
MaxTime == 5

\* Number of skill ids ever handed out by add.
MaxSkills == 2

\* Number of conflict records ever stored.
MaxConflicts == 3

\* Number of skills an import file lists.
MaxImported == 3

\* Number of steps (storage, registry, output writer) that fail in one
\* behaviour of SpecFaults.
MaxFaults == 1

\* Number of skills in the registry of SpecDetect.
MaxDetectSkills == 3

\* ------------------------------------------------------------------ text

Bullet == "U+2022"

UpperChars ==
  <<"A", "B", "C", "D", "E", "F", "G", "H", "I", "J", "K", "L", "M",
    "N", "O", "P", "Q", "R", "S", "T", "U", "V", "W", "X", "Y", "Z">>

LowerChars ==
  <<"a", "b", "c", "d", "e", "f", "g", "h", "i", "j", "k", "l", "m",
    "n", "o", "p", "q", "r", "s", "t", "u", "v", "w", "x", "y", "z">>

\* char::to_lowercase on the characters of the model's alphabet
LowerChar(c) ==
  IF \E i \in 1..26 : UpperChars[i] = c
    THEN LowerChars[CHOOSE i \in 1..26 : UpperChars[i] = c]
    ELSE c

\* str::to_lowercase
to_lowercase(s) == [i \in 1..Len(s) |-> LowerChar(s[i])]

\* char::is_whitespace
IsWhitespace(c) == c \in {" ", "\t", "\n", "\r"}

\* UTF-8 length of a character (str::len counts bytes)
ByteLen(c) == IF c = Bullet THEN 3 ELSE 1

RECURSIVE StrLen(_)
StrLen(s) == IF s = <<>> THEN 0 ELSE ByteLen(Head(s)) + StrLen(Tail(s))

RECURSIVE trim_start(_)
trim_start(s) ==
  IF s # <<>> /\ IsWhitespace(Head(s)) THEN trim_start(Tail(s)) ELSE s

RECURSIVE trim_end(_)
trim_end(s) ==
  IF s # <<>> /\ IsWhitespace(s[Len(s)])
    THEN trim_end(SubSeq(s, 1, Len(s) - 1))
    ELSE s

\* str::trim
trim(s) == trim_end(trim_start(s))

\* str::trim_start_matches(char): drops every leading occurrence of c
RECURSIVE trim_start_matches(_, _)
trim_start_matches(s, c) ==
  IF s # <<>> /\ Head(s) = c THEN trim_start_matches(Tail(s), c) ELSE s

\* str::starts_with(char)
starts_with(s, c) == s # <<>> /\ Head(s) = c

\* str::contains(&str): substring test
contains(hay, needle) ==
  \E i \in 0..(Len(hay) - Len(needle)) :
    SubSeq(hay, i + 1, i + Len(needle)) = needle

\* str::lines: split at "\n", a trailing "\r" of a line is dropped, and a
\* final empty piece is not a line
RECURSIVE lines(_)
lines(s) ==
  IF s = <<>> THEN <<>>
  ELSE IF \E i \in 1..Len(s) : s[i] = "\n"
    THEN LET i == CHOOSE k \in 1..Len(s) :
                    s[k] = "\n" /\ \A j \in 1..(k - 1) : s[j] # "\n"
             raw == SubSeq(s, 1, i - 1)
             line == IF raw # <<>> /\ raw[Len(raw)] = "\r"
                       THEN SubSeq(raw, 1, Len(raw) - 1) ELSE raw
         IN  <<line>> \o lines(SubSeq(s, i + 1, Len(s)))
    ELSE <<IF s[Len(s)] = "\r" THEN SubSeq(s, 1, Len(s) - 1) ELSE s>>

\* str::split_whitespace: the maximal runs of non-whitespace characters
RECURSIVE split_whitespace(_)
split_whitespace(s) ==
  LET t == trim_start(s)
  IN  IF t = <<>> THEN <<>>
      ELSE LET n == IF \E i \in 1..Len(t) : IsWhitespace(t[i])
                      THEN (CHOOSE k \in 1..Len(t) :
                              IsWhitespace(t[k])
                              /\ \A j \in 1..(k - 1) : ~IsWhitespace(t[j])) - 1
                      ELSE Len(t)
           IN  <<SubSeq(t, 1, n)>> \o split_whitespace(SubSeq(t, n + 1, Len(t)))

\* The elements of a sequence, as a set
Range(f) == {f[i] : i \in DOMAIN f}

\* Concatenation of a sequence of sequences, in order
RECURSIVE Flatten(_)
Flatten(ss) == IF ss = <<>> THEN <<>> ELSE Head(ss) \o Flatten(Tail(ss))

Min(a, b) == IF a <= b THEN a ELSE b

\* ------------------------------------------------------------- detection

\* The ordered antonym pairs of find_contradictions
contradiction_pairs ==
  << <<(<<"a", "l", "w", "a", "y", "s">>), (<<"n", "e", "v", "e", "r">>)>>,
     <<(<<"m", "u", "s", "t">>), (<<"m", "u", "s", "t", " ", "n", "o", "t">>)>>,
     <<(<<"s", "h", "o", "u", "l", "d">>),
       (<<"s", "h", "o", "u", "l", "d", " ", "n", "o", "t">>)>>,
     <<(<<"r", "e", "q", "u", "i", "r", "e", "d">>),
       (<<"o", "p", "t", "i", "o", "n", "a", "l">>)>>,
     <<(<<"e", "n", "a", "b", "l", "e">>), (<<"d", "i", "s", "a", "b", "l", "e">>)>>,
     <<(<<"u", "s", "e">>), (<<"a", "v", "o", "i", "d">>)>>,
     <<(<<"p", "r", "e", "f", "e", "r">>), (<<"a", "v", "o", "i", "d">>)>>,
     <<(<<"d", "o">>), (<<"d", "o", "n", "'", "t">>)>>,
     <<(<<"d", "o">>), (<<"d", "o", " ", "n", "o", "t">>)>> >>

COMMON_WORDS ==
  { <<"t", "h", "e">>, <<"a", "n", "d">>, <<"f", "o", "r">>,
    <<"w", "i", "t", "h">>, <<"t", "h", "a", "t">>, <<"t", "h", "i", "s">>,
    <<"f", "r", "o", "m">>, <<"y", "o", "u", "r">>, <<"w", "h", "e", "n">>,
    <<"a", "l", "w", "a", "y", "s">>, <<"n", "e", "v", "e", "r">>,
    <<"s", "h", "o", "u", "l", "d">>, <<"m", "u", "s", "t">>,
    <<"w", "i", "l", "l">>, <<"h", "a", "v", "e">>, <<"b", "e", "e", "n">>,
    <<"b", "e", "i", "n", "g">>, <<"u", "s", "e">>,
    <<"u", "s", "i", "n", "g">>, <<"u", "s", "e", "d">> }

is_common_word(word) == word \in COMMON_WORDS

\* The topic words of a line: tokens longer than 3 bytes that are no stop word
TopicWords(a) ==
  {w \in Range(split_whitespace(a)) : StrLen(w) > 3 /\ ~is_common_word(w)}

\* intersection / min > 0.3, computed on integers (the quotient of two small
\* integers never rounds across 0.3)
same_topic(a, b) ==
  LET words_a == TopicWords(a)
      words_b == TopicWords(b)
  IN  IF words_a = {} \/ words_b = {} THEN FALSE
      ELSE 10 * Cardinality(words_a \cap words_b)
             > 3 * Min(Cardinality(words_a), Cardinality(words_b))

IsInstructionLine(line) ==
  LET trimmed == trim(line)
  IN  starts_with(trimmed, "-") \/ starts_with(trimmed, "*")
        \/ starts_with(trimmed, Bullet)

\* The list items of a content: <<1-based line number, trimmed line>>
extract_instructions(content) ==
  LET ls == lines(content)
  IN  Flatten([i \in 1..Len(ls) |->
                 IF IsInstructionLine(ls[i]) THEN << <<i, trim(ls[i])>> >>
                                             ELSE <<>>])

normalize_instruction(inst) ==
  to_lowercase(
    trim(
      trim_start_matches(
        trim_start_matches(trim_start_matches(trim(inst), "-"), "*"),
        Bullet)))

\* Conflict::builder(..).description(..).lines(..).content(..).suggestion(..):
\* the finding before build() gives it an id, a status and detected_at
Finding(a, b, type, text, words, la, lb, ca, cb, sugg) ==
  [skill_a_id |-> a, skill_b_id |-> b, conflict_type |-> type,
   description |-> [text |-> text, words |-> words],
   line_a |-> la, line_b |-> lb, content_a |-> ca, content_b |-> cb,
   suggestion |-> sugg]

find_duplicates(skill_a, content_a, skill_b, content_b) ==
  LET instructions_a == extract_instructions(content_a)
      instructions_b == extract_instructions(content_b)
      One(ia, ib) ==
        LET normalized_a == normalize_instruction(ia[2])
            normalized_b == normalize_instruction(ib[2])
        IN  IF normalized_a = normalized_b /\ normalized_a # <<>>
              THEN <<Finding(skill_a, skill_b, "Duplicate",
                             "Duplicate instruction found", <<>>,
                             ia[1], ib[1], ia[2], ib[2],
                             "Remove from one skill or merge them")>>
              ELSE <<>>
  IN  Flatten([i \in 1..Len(instructions_a) |->
        Flatten([j \in 1..Len(instructions_b) |->
          One(instructions_a[i], instructions_b[j])])])

\* A variant of has_contradiction: A has word_a and B has word_b, only
has_contradiction_one_way(lower_a, lower_b, pair) ==
  contains(lower_a, pair[1]) /\ contains(lower_b, pair[2])

\* A has word_a and B has word_b, or the other way round
has_contradiction(lower_a, lower_b, pair) ==
  \/ contains(lower_a, pair[1]) /\ contains(lower_b, pair[2])
  \/ contains(lower_a, pair[2]) /\ contains(lower_b, pair[1])

find_contradictions(skill_a, content_a, skill_b, content_b) ==
  LET instructions_a == extract_instructions(content_a)
      instructions_b == extract_instructions(content_b)
      One(ia, ib) ==
        LET lower_a == to_lowercase(ia[2])
            lower_b == to_lowercase(ib[2])
            hits == {k \in 1..Len(contradiction_pairs) :
                       has_contradiction(lower_a, lower_b, contradiction_pairs[k])
                       /\ same_topic(lower_a, lower_b)}
        IN  IF hits = {} THEN <<>>
            ELSE LET k == CHOOSE h \in hits : \A g \in hits : h <= g
                 IN  <<Finding(skill_a, skill_b, "Contradictory",
                               "Contradictory instructions",
                               contradiction_pairs[k],
                               ia[1], ib[1], ia[2], ib[2],
                               "Disable one skill or set priority")>>
  IN  Flatten([i \in 1..Len(instructions_a) |->
        Flatten([j \in 1..Len(instructions_b) |->
          One(instructions_a[i], instructions_b[j])])])

\* skills: a sequence of <<skill id, content>>; every pair i < j is compared
detect_conflicts_internal(skills) ==
  Flatten([i \in 1..Len(skills) |->
    Flatten([d \in 1..(Len(skills) - i) |->
      LET j == i + d
      IN  find_duplicates(skills[i][1], skills[i][2], skills[j][1], skills[j][2])
            \o find_contradictions(skills[i][1], skills[i][2],
                                   skills[j][1], skills[j][2])])])

\* ------------------------------------------------------------ data model

\* SkillScope: Global, or Project { path }
Global == [kind |-> "Global", path |-> ""]

Project(path) == [kind |-> "Project", path |-> path]

Scopes == {Global, Project("/p1"), Project("/p2")}

\* serde_json::to_string(scope), the text list_by_scope compares
scope_json(scope) ==
  IF scope.kind = "Global" THEN <<"Global">>
                           ELSE <<"Project", "path", scope.path>>

\* Skill names the commands are called with
Names == {<<"a">>, <<"a", "b">>}

\* Scopes skills are added to by the commands
AddScopes == {Global, Project("/p1")}

\* Contents a source can deliver
ContentAlways ==
  <<"#", " ", "S", "t", "y", "l", "e", "\n",
    "-", " ", "A", "l", "w", "a", "y", "s", " ", "u", "s", "e", " ",
    "t", "a", "b", "s">>

ContentNever ==
  <<"-", " ", "N", "e", "v", "e", "r", " ", "u", "s", "e", " ",
    "t", "a", "b", "s">>

Contents == {ContentAlways, ContentNever}

\* ResolutionStrategy
Strategies ==
  {"DisableSkillA", "DisableSkillB", "PrioritizeA", "PrioritizeB", "Ignore"}

\* Option<DateTime>: None is the empty sequence, Some(t) is <<t>>
None == <<>>

Some(t) == <<t>>

\* i32::MAX and i32::MIN
I32Max == 2147483647

I32Min == (-I32Max) - 1

\* p + d on i32 for d >= 0, as a release build computes it: the sum wraps
\* around at 2^31
I32Add(p, d) ==
  IF p <= I32Max - d THEN p + d ELSE I32Min + ((d - 1) - (I32Max - p))

\* SkillStorage::hash_content: SHA-256, taken to be free of collisions; the
\* digest of a text is modelled by the pair of its length and the text
hash_content(content) == <<"sha256", Len(content), content>>

\* Skill::builder(name).source(..).scope(..).build(), then content_hash set
NewSkill(name, scope, hash, t) ==
  [name |-> name, scope |-> scope, enabled |-> TRUE, content_hash |-> hash,
   updated_at |-> t, priority |-> 50]

\* ConflictBuilder::build on a finding
BuildConflict(f, t) ==
  [skill_a_id |-> f.skill_a_id, skill_b_id |-> f.skill_b_id,
   conflict_type |-> f.conflict_type, description |-> f.description,
   line_a |-> f.line_a, line_b |-> f.line_b,
   content_a |-> f.content_a, content_b |-> f.content_b,
   suggestion |-> f.suggestion,
   status |-> "Unresolved", detected_at |-> t, resolved_at |-> None]

\* Conflict::resolve
Conflict_resolve(c, t) == [c EXCEPT !.status = "Resolved", !.resolved_at = Some(t)]

\* Conflict::ignore
Conflict_ignore(c, t) == [c EXCEPT !.status = "Ignored", !.resolved_at = Some(t)]

\* Conflict::is_resolved
is_resolved(c) == c.status \in {"Resolved", "Ignored"}

\* ----------------------------------------------------------------- state

VARIABLES
  skills,        \* skill registry: id -> skill record
  content,       \* content store: skill id -> text
  conflicts,     \* conflict store: conflict id -> conflict record
  output,        \* output writer: scope -> the merged file
  now,           \* the clock
  nextSkill,     \* the next fresh skill id
  nextConflict,  \* the next fresh conflict id
  faults,        \* how many steps may still fail
  last           \* the service call that ran last, and what it did

vars ==
  <<skills, content, conflicts, output, now, nextSkill, nextConflict, faults,
    last>>

\* The record of a service call: its arguments, its result, the steps it
\* completed, and the scopes it merged
Call(op, name, cid, strategy, result, steps, merged) ==
  [op |-> op, name |-> name, cid |-> cid, strategy |-> strategy,
   result |-> result, steps |-> steps, merged |-> merged, loaded |-> None]

\* The record of a call of resolve or ignore, with the conflict it loaded
ConflictCall(op, cid, strategy, result, steps, merged, c) ==
  [Call(op, <<>>, cid, strategy, result, steps, merged)
     EXCEPT !.loaded = Some(c)]

Absent == [exists |-> FALSE, text |-> <<>>]

Init ==
  /\ skills = <<>>
  /\ content = <<>>
  /\ conflicts = <<>>
  /\ output = [s \in Scopes |-> Absent]
  /\ now = 1
  /\ nextSkill = 1
  /\ nextConflict = 1
  /\ faults = 0
  /\ last = Call("init", <<>>, 0, "", "Ok", <<>>, {})

\* ------------------------------------------------------------- registry

\* Byte value of a character of a name
CharCode(c) ==
  IF \E i \in 1..26 : LowerChars[i] = c
    THEN 96 + (CHOOSE i \in 1..26 : LowerChars[i] = c)
    ELSE 45

\* memcmp order of two texts (SQLite's BINARY collation)
RECURSIVE BytesLess(_, _)
BytesLess(a, b) ==
  IF b = <<>> THEN FALSE
  ELSE IF a = <<>> THEN TRUE
  ELSE IF CharCode(Head(a)) # CharCode(Head(b))
    THEN CharCode(Head(a)) < CharCode(Head(b))
    ELSE BytesLess(Tail(a), Tail(b))

\* A variant of OrderBefore: ORDER BY priority ASC, name ASC
OrderBeforeAscending(sk, i, j) ==
  \/ sk[i].priority < sk[j].priority
  \/ sk[i].priority = sk[j].priority /\ BytesLess(sk[i].name, sk[j].name)

\* A variant of OrderBefore: ORDER BY priority DESC alone, which leaves rows of
\* equal priority in the order they were inserted
OrderBeforeInsertion(sk, i, j) ==
  \/ sk[i].priority > sk[j].priority
  \/ sk[i].priority = sk[j].priority /\ i < j

\* ORDER BY priority DESC, name ASC
OrderBefore(sk, i, j) ==
  \/ sk[i].priority > sk[j].priority
  \/ sk[i].priority = sk[j].priority /\ BytesLess(sk[i].name, sk[j].name)

\* The ids of a set in the order of the ORDER BY clause
RECURSIVE Ordered(_, _)
Ordered(sk, ids) ==
  IF ids = {} THEN <<>>
  ELSE LET first == CHOOSE i \in ids : \A j \in ids \ {i} : OrderBefore(sk, i, j)
       IN  <<first>> \o Ordered(sk, ids \ {first})

\* A variant of list_by_scope: the query without its WHERE clause
list_by_scope_unfiltered(sk, scope) == Ordered(sk, DOMAIN sk)

\* SkillRepository::list_by_scope
list_by_scope(sk, scope) ==
  Ordered(sk, {i \in DOMAIN sk : scope_json(sk[i].scope) = scope_json(scope)})

\* A variant of list_enabled: the query without its WHERE clause
list_enabled_unfiltered(sk) == Ordered(sk, DOMAIN sk)

\* A variant of list_enabled: the enabled skills of the global scope alone
list_enabled_global(sk) ==
  Ordered(sk, {i \in DOMAIN sk : sk[i].enabled /\ sk[i].scope = Global})

\* SkillRepository::list_enabled
list_enabled(sk) == Ordered(sk, {i \in DOMAIN sk : sk[i].enabled})

\* A variant of get_by_name: the lookup confined to the global scope
get_by_name_global(sk, name) ==
  {i \in DOMAIN sk : sk[i].name = name /\ sk[i].scope = Global}

\* SkillRepository::get_by_name: the ids that carry the name (at most one)
get_by_name(sk, name) == {i \in DOMAIN sk : sk[i].name = name}

\* A variant of conflict_repo_get: the query without its WHERE clause, which
\* yields a stored row whatever the id
conflict_repo_get_unfiltered(cs, id) ==
  IF id \in DOMAIN cs THEN Some(cs[id])
  ELSE IF DOMAIN cs = {} THEN None
  ELSE Some(cs[CHOOSE k \in DOMAIN cs : \A m \in DOMAIN cs : k <= m])

\* ConflictRepository::get: SELECT * FROM conflicts WHERE id = ?1
conflict_repo_get(cs, id) == IF id \in DOMAIN cs THEN Some(cs[id]) ELSE None

\* A variant of conflict_repo_update: the UPDATE sets the status column alone
conflict_repo_update_status(cs, id, c) ==
  IF id \in DOMAIN cs THEN [cs EXCEPT ![id].status = c.status] ELSE cs

\* ConflictRepository::update: UPDATE conflicts SET status, resolved_at WHERE
\* id = ?1; no row, no change
conflict_repo_update(cs, id, c) ==
  IF id \in DOMAIN cs
    THEN [cs EXCEPT ![id].status = c.status, ![id].resolved_at = c.resolved_at]
    ELSE cs

\* Adding and removing an entry of a store
Put(f, k, v) == [x \in DOMAIN f \cup {k} |-> IF x = k THEN v ELSE f[x]]

Drop(f, k) == [x \in DOMAIN f \ {k} |-> f[x]]

\* ---------------------------------------------------------- merge engine

\* The skills merge selects: enabled, scope equal to the requested one, in
\* the registry's order
MergeSelect(sk, scope) ==
  LET l == list_by_scope(sk, scope)
  IN  Flatten([k \in 1..Len(l) |-> IF sk[l[k]].enabled THEN <<l[k]>> ELSE <<>>])

\* A variant of MergeText: a selected skill without content aborts the merge
\* and nothing is rendered
MergeTextAbortOnMissing(sk, ct, scope) ==
  LET l == MergeSelect(sk, scope)
  IN  IF \E k \in 1..Len(l) : l[k] \notin DOMAIN ct THEN <<>>
      ELSE [k \in 1..Len(l) |-> [skill |-> l[k], content |-> ct[l[k]]]]

\* The merged document: one section per selected skill whose content can be
\* read, in order; a skill without content is skipped
MergeText(sk, ct, scope) ==
  LET l == MergeSelect(sk, scope)
  IN  Flatten([k \in 1..Len(l) |->
        IF l[k] \in DOMAIN ct
          THEN <<[skill |-> l[k], content |-> ct[l[k]]]>>
          ELSE <<>>])

\* OutputStorage::write_claude_md when it succeeds
Written(text) == [exists |-> TRUE, text |-> text]

\* OutputStorage::write_claude_md when it fails: create_dir_all or the open
\* failed (the file is as before), or the write failed after the file was
\* truncated
WriteFailed(old) == {old, Written(<<>>)}

\* merge(scope) that succeeds
merge(out, sk, ct, scope) ==
  [out EXCEPT ![scope] = Written(MergeText(sk, ct, scope))]

\* The outputs merge(scope) can leave when the output writer fails
mergeFailed(out, scope) ==
  {[out EXCEPT ![scope] = w] : w \in WriteFailed(out[scope])}

\* A variant of ScopesOf: the scopes among the enabled skills alone
ScopesOfEnabled(sk) == {sk[i].scope : i \in {j \in DOMAIN sk : sk[j].enabled}}

\* The distinct scopes among all skills, enabled or not
ScopesOf(sk) == {sk[i].scope : i \in DOMAIN sk}

\* rebuild_all that succeeds: merge of every scope among the skills
rebuild_all(out, sk, ct) ==
  [s \in Scopes |->
     IF s \in ScopesOf(sk) THEN Written(MergeText(sk, ct, s)) ELSE out[s]]

\* The outputs rebuild_all can leave when one write fails: the scopes merged
\* before it are written, the failing one is as the writer left it, the
\* others are untouched
rebuild_allFailed(out, sk, ct) ==
  UNION {
    UNION {
      {[s \in Scopes |->
          IF s \in done THEN Written(MergeText(sk, ct, s))
          ELSE IF s = f THEN w
          ELSE out[s]] : w \in WriteFailed(out[f])}
      : done \in SUBSET (ScopesOf(sk) \ {f})}
    : f \in ScopesOf(sk)}

\* ---------------------------------------------------------- skill service

\* A call that gets as far as reading the clock (Utc::now) moves it on
Tick == now <= MaxTime /\ now' = now + 1

\* A call that returns before it reads the clock or touches a store; it is
\* recorded by its operation, the conflict id it was given and its result
Rejected(op, cid, err) ==
  /\ UNCHANGED <<skills, content, conflicts, output, now, nextSkill,
                 nextConflict, faults>>
  /\ last' = Call(op, <<>>, cid, "", err, <<>>, {})

\* fail names the step that fails in this call; "none": no step fails
NoFault(fail) == fail = "none" /\ UNCHANGED faults

Fault(fail, step) == fail = step /\ faults > 0 /\ faults' = faults - 1

\* A variant of MergedScope: the global scope, whatever the skill's
MergedScopeGlobal(skill) == Global

\* The scope a skill command hands to merge: the skill's own
MergedScope(skill) == skill.scope

\* A variant of Add: repository.create runs before storage.store, so that a
\* failing store leaves the record without content
AddRecordFirst(name, to, fetched, fail) ==
  LET id == nextSkill
      skill == NewSkill(name, to, hash_content(fetched), now)
      scope == MergedScope(skill)
  IN  IF name = <<>>
        THEN fail = "none" /\ Rejected("add", 0, "InvalidSkillName")
      ELSE IF get_by_name(skills, name) # {}
        THEN fail = "none" /\ Rejected("add", 0, "SkillExists")
      ELSE IF fetched = <<>>
        THEN fail = "none" /\ Rejected("add", 0, "InvalidContent")
      ELSE
        /\ Tick
        /\ nextSkill <= MaxSkills
        /\ nextSkill' = nextSkill + 1
        /\ UNCHANGED <<conflicts, nextConflict>>
        /\ \/ /\ Fault(fail, "repository.create")
              /\ UNCHANGED <<skills, content, output>>
              /\ last' = Call("add", name, 0, "", "Database", <<>>, {})
           \/ /\ Fault(fail, "storage.store")
              /\ skills' = Put(skills, id, skill)
              /\ UNCHANGED <<content, output>>
              /\ last' = Call("add", name, 0, "", "Io",
                              <<"repository.create">>, {})
           \/ /\ Fault(fail, "merge")
              /\ content' = Put(content, id, fetched)
              /\ skills' = Put(skills, id, skill)
              /\ output' \in mergeFailed(output, scope)
              /\ last' = Call("add", name, 0, "", "Io",
                              <<"repository.create", "storage.store",
                                "publish SkillAdded">>, {})
           \/ /\ NoFault(fail)
              /\ content' = Put(content, id, fetched)
              /\ skills' = Put(skills, id, skill)
              /\ output' = merge(output, skills', content', scope)
              /\ last' = Call("add", name, 0, "", "Ok",
                              <<"repository.create", "storage.store",
                                "publish SkillAdded", "merge">>, {scope})

\* SkillService::add(source, name, scope); fetched is what the source delivers
Add(name, to, fetched, fail) ==
  LET id == nextSkill
      skill == NewSkill(name, to, hash_content(fetched), now)
      scope == MergedScope(skill)
  IN  IF name = <<>>
        THEN fail = "none" /\ Rejected("add", 0, "InvalidSkillName")
      ELSE IF get_by_name(skills, name) # {}
        THEN fail = "none" /\ Rejected("add", 0, "SkillExists")
      ELSE IF fetched = <<>>
        THEN fail = "none" /\ Rejected("add", 0, "InvalidContent")
      ELSE
        /\ Tick
        /\ nextSkill <= MaxSkills
        /\ nextSkill' = nextSkill + 1
        /\ UNCHANGED <<conflicts, nextConflict>>
        /\ \/ /\ Fault(fail, "storage.store")
              /\ UNCHANGED <<skills, content, output>>
              /\ last' = Call("add", name, 0, "", "Io", <<>>, {})
           \/ /\ Fault(fail, "repository.create")
              /\ content' = Put(content, id, fetched)
              /\ UNCHANGED <<skills, output>>
              /\ last' = Call("add", name, 0, "", "Database",
                              <<"storage.store">>, {})
           \/ /\ Fault(fail, "merge")
              /\ content' = Put(content, id, fetched)
              /\ skills' = Put(skills, id, skill)
              /\ output' \in mergeFailed(output, scope)
              /\ last' = Call("add", name, 0, "", "Io",
                              <<"storage.store", "repository.create",
                                "publish SkillAdded">>, {})
           \/ /\ NoFault(fail)
              /\ content' = Put(content, id, fetched)
              /\ skills' = Put(skills, id, skill)
              /\ output' = merge(output, skills', content', scope)
              /\ last' = Call("add", name, 0, "", "Ok",
                              <<"storage.store", "repository.create",
                                "publish SkillAdded", "merge">>, {scope})

\* SkillService::remove(name). A storage.delete that fails (remove_dir_all)
\* may have deleted the content already or not yet
Remove(name, fail) ==
  IF get_by_name(skills, name) = {}
    THEN fail = "none" /\ Rejected("remove", 0, "SkillNotFound")
    ELSE
      LET id == CHOOSE i \in get_by_name(skills, name) : TRUE
          scope == MergedScope(skills[id])
      IN  /\ Tick
          /\ UNCHANGED <<conflicts, nextConflict, nextSkill>>
          /\ \/ /\ Fault(fail, "storage.delete")
                /\ content' \in {content, Drop(content, id)}
                /\ UNCHANGED <<skills, output>>
                /\ last' = Call("remove", name, 0, "", "Io", <<>>, {})
             \/ /\ Fault(fail, "repository.delete")
                /\ content' = Drop(content, id)
                /\ UNCHANGED <<skills, output>>
                /\ last' = Call("remove", name, 0, "", "Database",
                                <<"storage.delete">>, {})
             \/ /\ Fault(fail, "merge")
                /\ content' = Drop(content, id)
                /\ skills' = Drop(skills, id)
                /\ output' \in mergeFailed(output, scope)
                /\ last' = Call("remove", name, 0, "", "Io",
                                <<"storage.delete", "repository.delete",
                                  "publish SkillRemoved">>, {})
             \/ /\ NoFault(fail)
                /\ content' = Drop(content, id)
                /\ skills' = Drop(skills, id)
                /\ output' = merge(output, skills', content', scope)
                /\ last' = Call("remove", name, 0, "", "Ok",
                                <<"storage.delete", "repository.delete",
                                  "publish SkillRemoved", "merge">>, {scope})

\* A variant of Enable: without the early return for a skill that is enabled
EnableUnconditional(name, fail) ==
  IF get_by_name(skills, name) = {}
    THEN fail = "none" /\ Rejected("enable", 0, "SkillNotFound")
    ELSE
      LET id == CHOOSE i \in get_by_name(skills, name) : TRUE
          scope == MergedScope(skills[id])
          skill == [skills[id] EXCEPT !.enabled = TRUE, !.updated_at = now]
      IN  /\ Tick
          /\ UNCHANGED <<content, conflicts, nextConflict, nextSkill>>
          /\ \/ /\ Fault(fail, "repository.update")
                /\ UNCHANGED <<skills, output>>
                /\ last' = Call("enable", name, 0, "", "Database", <<>>, {})
             \/ /\ Fault(fail, "merge")
                /\ skills' = [skills EXCEPT ![id] = skill]
                /\ output' \in mergeFailed(output, scope)
                /\ last' = Call("enable", name, 0, "", "Io",
                                <<"repository.update",
                                  "publish SkillEnabled">>, {})
             \/ /\ NoFault(fail)
                /\ skills' = [skills EXCEPT ![id] = skill]
                /\ output' = merge(output, skills', content, scope)
                /\ last' = Call("enable", name, 0, "", "Ok",
                                <<"repository.update",
                                  "publish SkillEnabled", "merge">>, {scope})

\* SkillService::enable(name)
Enable(name, fail) ==
  IF get_by_name(skills, name) = {}
    THEN fail = "none" /\ Rejected("enable", 0, "SkillNotFound")
    ELSE
      LET id == CHOOSE i \in get_by_name(skills, name) : TRUE
          scope == MergedScope(skills[id])
          skill == [skills[id] EXCEPT !.enabled = TRUE, !.updated_at = now]
      IN  IF skills[id].enabled
            THEN fail = "none" /\ Rejected("enable", 0, "Ok")
            ELSE
              /\ Tick
              /\ UNCHANGED <<content, conflicts, nextConflict, nextSkill>>
              /\ \/ /\ Fault(fail, "repository.update")
                    /\ UNCHANGED <<skills, output>>
                    /\ last' = Call("enable", name, 0, "", "Database", <<>>, {})
                 \/ /\ Fault(fail, "merge")
                    /\ skills' = [skills EXCEPT ![id] = skill]
                    /\ output' \in mergeFailed(output, scope)
                    /\ last' = Call("enable", name, 0, "", "Io",
                                    <<"repository.update",
                                      "publish SkillEnabled">>, {})
                 \/ /\ NoFault(fail)
                    /\ skills' = [skills EXCEPT ![id] = skill]
                    /\ output' = merge(output, skills', content, scope)
                    /\ last' = Call("enable", name, 0, "", "Ok",
                                    <<"repository.update",
                                      "publish SkillEnabled", "merge">>, {scope})

\* SkillService::disable(name)
Disable(name, fail) ==
  IF get_by_name(skills, name) = {}
    THEN fail = "none" /\ Rejected("disable", 0, "SkillNotFound")
    ELSE
      LET id == CHOOSE i \in get_by_name(skills, name) : TRUE
          scope == MergedScope(skills[id])
          skill == [skills[id] EXCEPT !.enabled = FALSE, !.updated_at = now]
      IN  IF ~skills[id].enabled
            THEN fail = "none" /\ Rejected("disable", 0, "Ok")
            ELSE
              /\ Tick
              /\ UNCHANGED <<content, conflicts, nextConflict, nextSkill>>
              /\ \/ /\ Fault(fail, "repository.update")
                    /\ UNCHANGED <<skills, output>>
                    /\ last' = Call("disable", name, 0, "", "Database", <<>>, {})
                 \/ /\ Fault(fail, "merge")
                    /\ skills' = [skills EXCEPT ![id] = skill]
                    /\ output' \in mergeFailed(output, scope)
                    /\ last' = Call("disable", name, 0, "", "Io",
                                    <<"repository.update",
                                      "publish SkillDisabled">>, {})
                 \/ /\ NoFault(fail)
                    /\ skills' = [skills EXCEPT ![id] = skill]
                    /\ output' = merge(output, skills', content, scope)
                    /\ last' = Call("disable", name, 0, "", "Ok",
                                    <<"repository.update",
                                      "publish SkillDisabled", "merge">>, {scope})

\* ------------------------------------------------------- conflict service

\* What detect finds: the enabled skills, those whose content can be read,
\* and the findings of detect_conflicts_internal; none when fewer than two
\* skills are enabled
Detected(sk, ct) ==
  LET enabled == list_enabled(sk)
      skill_contents ==
        Flatten([k \in 1..Len(enabled) |->
          IF enabled[k] \in DOMAIN ct
            THEN << <<enabled[k], ct[enabled[k]]>> >>
            ELSE <<>>])
  IN  IF Len(enabled) < 2 THEN <<>>
      ELSE detect_conflicts_internal(skill_contents)

\* A variant of Detect: storage.read(..)? in place of if let Ok(..), so that
\* an enabled skill without content fails the call
DetectPropagating ==
  IF /\ Len(list_enabled(skills)) >= 2
     /\ \E i \in DOMAIN skills : skills[i].enabled /\ i \notin DOMAIN content
    THEN Rejected("detect", 0, "Io")
    ELSE
      \E found \in {Detected(skills, content)} :
        LET n == Len(found)
        IN  IF n = 0
              THEN Rejected("detect", 0, "Ok")
              ELSE
                /\ Tick
                /\ UNCHANGED <<skills, content, output, nextSkill, faults>>
                /\ nextConflict + n - 1 <= MaxConflicts
                /\ conflicts' =
                     [x \in DOMAIN conflicts
                              \cup (nextConflict..(nextConflict + n - 1)) |->
                        IF x \in DOMAIN conflicts THEN conflicts[x]
                        ELSE BuildConflict(found[x - nextConflict + 1], now)]
                /\ nextConflict' = nextConflict + n
                /\ last' = Call("detect", <<>>, 0, "", "Ok",
                                Flatten([k \in 1..n |->
                                  <<"conflict_repo.create",
                                    "publish ConflictDetected">>]),
                                {})

\* A variant of Detect: a finding that is stored already (same skills, type
\* and lines) is not stored again
DetectDeduplicating ==
  \E all \in {Detected(skills, content)} :
    LET Fresh(f) ==
          \A id \in DOMAIN conflicts :
            \/ conflicts[id].skill_a_id # f.skill_a_id
            \/ conflicts[id].skill_b_id # f.skill_b_id
            \/ conflicts[id].conflict_type # f.conflict_type
            \/ conflicts[id].line_a # f.line_a
            \/ conflicts[id].line_b # f.line_b
        found == SelectSeq(all, Fresh)
        n == Len(found)
    IN  IF n = 0
          THEN Rejected("detect", 0, "Ok")
          ELSE
            /\ Tick
            /\ UNCHANGED <<skills, content, output, nextSkill, faults>>
            /\ nextConflict + n - 1 <= MaxConflicts
            /\ conflicts' =
                 [x \in DOMAIN conflicts
                          \cup (nextConflict..(nextConflict + n - 1)) |->
                    IF x \in DOMAIN conflicts THEN conflicts[x]
                    ELSE BuildConflict(found[x - nextConflict + 1], now)]
            /\ nextConflict' = nextConflict + n
            /\ last' = Call("detect", <<>>, 0, "", "Ok",
                            Flatten([k \in 1..n |->
                              <<"conflict_repo.create",
                                "publish ConflictDetected">>]),
                            {})

\* ConflictService::detect
Detect ==
  \E found \in {Detected(skills, content)} :
    LET n == Len(found)
    IN  IF n = 0
          THEN Rejected("detect", 0, "Ok")
          ELSE
            /\ Tick
            /\ UNCHANGED <<skills, content, output, nextSkill, faults>>
            /\ nextConflict + n - 1 <= MaxConflicts
            /\ conflicts' =
                 [x \in DOMAIN conflicts
                          \cup (nextConflict..(nextConflict + n - 1)) |->
                    IF x \in DOMAIN conflicts THEN conflicts[x]
                    ELSE BuildConflict(found[x - nextConflict + 1], now)]
            /\ nextConflict' = nextConflict + n
            /\ last' = Call("detect", <<>>, 0, "", "Ok",
                            Flatten([k \in 1..n |->
                              <<"conflict_repo.create",
                                "publish ConflictDetected">>]),
                            {})

\* A variant of ApplyStrategy: the Disable arms disable the other skill
ApplyStrategySwapped(sk, c, strategy) ==
  LET a == c.skill_a_id
      b == c.skill_b_id
  IN  CASE strategy = "DisableSkillA" /\ b \in DOMAIN sk ->
             [sk EXCEPT ![b].enabled = FALSE]
        [] strategy = "DisableSkillB" /\ a \in DOMAIN sk ->
             [sk EXCEPT ![a].enabled = FALSE]
        [] strategy = "PrioritizeA" /\ a \in DOMAIN sk /\ b \in DOMAIN sk ->
             [sk EXCEPT ![a].priority = I32Add(sk[b].priority, 10)]
        [] strategy = "PrioritizeB" /\ a \in DOMAIN sk /\ b \in DOMAIN sk ->
             [sk EXCEPT ![b].priority = I32Add(sk[a].priority, 10)]
        [] OTHER -> sk

\* A variant of ApplyStrategy: the Prioritize arms add the margin to the
\* skill's own priority
ApplyStrategyOwnPriority(sk, c, strategy) ==
  LET a == c.skill_a_id
      b == c.skill_b_id
  IN  CASE strategy = "DisableSkillA" /\ a \in DOMAIN sk ->
             [sk EXCEPT ![a].enabled = FALSE]
        [] strategy = "DisableSkillB" /\ b \in DOMAIN sk ->
             [sk EXCEPT ![b].enabled = FALSE]
        [] strategy = "PrioritizeA" /\ a \in DOMAIN sk /\ b \in DOMAIN sk ->
             [sk EXCEPT ![a].priority = I32Add(sk[a].priority, 10)]
        [] strategy = "PrioritizeB" /\ a \in DOMAIN sk /\ b \in DOMAIN sk ->
             [sk EXCEPT ![b].priority = I32Add(sk[b].priority, 10)]
        [] OTHER -> sk

\* A variant of ApplyStrategy: the DisableSkillB arm leaves the flag as it is
ApplyStrategyNoDisableB(sk, c, strategy) ==
  LET a == c.skill_a_id
      b == c.skill_b_id
  IN  CASE strategy = "DisableSkillA" /\ a \in DOMAIN sk ->
             [sk EXCEPT ![a].enabled = FALSE]
        [] strategy = "PrioritizeA" /\ a \in DOMAIN sk /\ b \in DOMAIN sk ->
             [sk EXCEPT ![a].priority = I32Add(sk[b].priority, 10)]
        [] strategy = "PrioritizeB" /\ a \in DOMAIN sk /\ b \in DOMAIN sk ->
             [sk EXCEPT ![b].priority = I32Add(sk[a].priority, 10)]
        [] OTHER -> sk

\* A variant of ApplyStrategy: each arm also sets updated_at, as enable and
\* disable do
ApplyStrategyTouching(sk, c, strategy) ==
  LET a == c.skill_a_id
      b == c.skill_b_id
  IN  CASE strategy = "DisableSkillA" /\ a \in DOMAIN sk ->
             [sk EXCEPT ![a].enabled = FALSE, ![a].updated_at = now]
        [] strategy = "DisableSkillB" /\ b \in DOMAIN sk ->
             [sk EXCEPT ![b].enabled = FALSE, ![b].updated_at = now]
        [] strategy = "PrioritizeA" /\ a \in DOMAIN sk /\ b \in DOMAIN sk ->
             [sk EXCEPT ![a].priority = I32Add(sk[b].priority, 10),
                        ![a].updated_at = now]
        [] strategy = "PrioritizeB" /\ a \in DOMAIN sk /\ b \in DOMAIN sk ->
             [sk EXCEPT ![b].priority = I32Add(sk[a].priority, 10),
                        ![b].updated_at = now]
        [] OTHER -> sk

\* The registry after the strategy's match arm
ApplyStrategy(sk, c, strategy) ==
  LET a == c.skill_a_id
      b == c.skill_b_id
  IN  CASE strategy = "DisableSkillA" /\ a \in DOMAIN sk ->
             [sk EXCEPT ![a].enabled = FALSE]
        [] strategy = "DisableSkillB" /\ b \in DOMAIN sk ->
             [sk EXCEPT ![b].enabled = FALSE]
        [] strategy = "PrioritizeA" /\ a \in DOMAIN sk /\ b \in DOMAIN sk ->
             [sk EXCEPT ![a].priority = I32Add(sk[b].priority, 10)]
        [] strategy = "PrioritizeB" /\ a \in DOMAIN sk /\ b \in DOMAIN sk ->
             [sk EXCEPT ![b].priority = I32Add(sk[a].priority, 10)]
        [] OTHER -> sk

\* Whether the strategy's match arm calls skill_repo.update
StrategyUpdates(sk, c, strategy) ==
  \/ strategy = "DisableSkillA" /\ c.skill_a_id \in DOMAIN sk
  \/ strategy = "DisableSkillB" /\ c.skill_b_id \in DOMAIN sk
  \/ /\ strategy \in {"PrioritizeA", "PrioritizeB"}
     /\ c.skill_a_id \in DOMAIN sk
     /\ c.skill_b_id \in DOMAIN sk

\* A variant of MarkResolved: conflict.ignore() for the Ignore strategy
MarkResolvedByStrategy(c, strategy, t) ==
  IF strategy = "Ignore" THEN Conflict_ignore(c, t) ELSE Conflict_resolve(c, t)

\* The conflict record resolve stores: conflict.resolve(), whatever the strategy
MarkResolved(c, strategy, t) == Conflict_resolve(c, t)

\* A variant of ResolveCall: rebuild_all runs first, before the strategy's
\* skill update and the conflict's update
ResolveCallRebuildFirst(op, conflict_id, strategy, fail) ==
  \E got \in {conflict_repo_get(conflicts, conflict_id)} :
    IF got = None
      THEN /\ fail = "none"
           /\ Rejected(op, conflict_id, "ConflictNotFound")
      ELSE
        LET c == got[1]
            sk == ApplyStrategy(skills, c, strategy)
            upd == IF StrategyUpdates(skills, c, strategy)
                     THEN <<"skill_repo.update">> ELSE <<>>
            resolved == MarkResolved(c, strategy, now)
        IN  /\ Tick
            /\ NoFault(fail)
            /\ UNCHANGED <<content, nextSkill, nextConflict>>
            /\ output' = rebuild_all(output, skills, content)
            /\ skills' = sk
            /\ conflicts' =
                 conflict_repo_update(conflicts, conflict_id, resolved)
            /\ last' = ConflictCall(op, conflict_id, strategy, "Ok",
                                    <<"rebuild_all">> \o upd
                                      \o <<"conflict_repo.update",
                                           "publish ConflictResolved">>,
                                    ScopesOf(skills), c)

\* A variant of ResolveCall: the steps run in one transaction, so that a
\* failing step leaves the registry and the conflict store as they were
ResolveCallTransactional(op, conflict_id, strategy, fail) ==
  \E got \in {conflict_repo_get(conflicts, conflict_id)} :
    IF got = None
      THEN /\ fail = "none"
           /\ Rejected(op, conflict_id, "ConflictNotFound")
      ELSE
        LET c == got[1]
            sk == ApplyStrategy(skills, c, strategy)
            upd == IF StrategyUpdates(skills, c, strategy)
                     THEN <<"skill_repo.update">> ELSE <<>>
            resolved == MarkResolved(c, strategy, now)
        IN  /\ Tick
            /\ UNCHANGED <<content, nextSkill, nextConflict>>
            /\ \/ /\ Fault(fail, "skill_repo.update")
                  /\ upd # <<>>
                  /\ UNCHANGED <<skills, conflicts, output>>
                  /\ last' = ConflictCall(op, conflict_id, strategy, "Database",
                                          <<>>, {}, c)
               \/ /\ Fault(fail, "conflict_repo.update")
                  /\ UNCHANGED <<skills, conflicts, output>>
                  /\ last' = ConflictCall(op, conflict_id, strategy, "Database",
                                          upd, {}, c)
               \/ /\ Fault(fail, "rebuild_all")
                  /\ UNCHANGED <<skills, conflicts>>
                  /\ output' \in rebuild_allFailed(output, sk, content)
                  /\ last' = ConflictCall(op, conflict_id, strategy, "Io",
                                          upd \o <<"conflict_repo.update",
                                                   "publish ConflictResolved">>,
                                          {}, c)
               \/ /\ NoFault(fail)
                  /\ skills' = sk
                  /\ conflicts' =
                       conflict_repo_update(conflicts, conflict_id, resolved)
                  /\ output' = rebuild_all(output, sk, content)
                  /\ last' = ConflictCall(op, conflict_id, strategy, "Ok",
                                          upd \o <<"conflict_repo.update",
                                                   "publish ConflictResolved",
                                                   "rebuild_all">>,
                                          ScopesOf(sk), c)

\* Whether the strategy's "+ 10" leaves the range of i32
PrioritizeOverflows(sk, c, strategy) ==
  /\ strategy \in {"PrioritizeA", "PrioritizeB"}
  /\ c.skill_a_id \in DOMAIN sk
  /\ c.skill_b_id \in DOMAIN sk
  /\ LET other == IF strategy = "PrioritizeA" THEN c.skill_b_id
                                             ELSE c.skill_a_id
     IN  sk[other].priority > I32Max - 10

\* The body of resolve(conflict_id, strategy), called as op. When the
\* strategy's "+ 10" overflows, a build with overflow checks panics before
\* any store is written, and a build without them wraps the sum and goes on
ResolveCall(op, conflict_id, strategy, fail) ==
  \E got \in {conflict_repo_get(conflicts, conflict_id)} :
    IF got = None
      THEN /\ fail = "none"
           /\ Rejected(op, conflict_id, "ConflictNotFound")
      ELSE
        LET c == got[1]
            sk == ApplyStrategy(skills, c, strategy)
            upd == IF StrategyUpdates(skills, c, strategy)
                     THEN <<"skill_repo.update">> ELSE <<>>
            resolved == MarkResolved(c, strategy, now)
        IN  /\ Tick
            /\ UNCHANGED <<content, nextSkill, nextConflict>>
            /\ \/ /\ NoFault(fail)
                  /\ PrioritizeOverflows(skills, c, strategy)
                  /\ UNCHANGED <<skills, conflicts, output>>
                  /\ last' = ConflictCall(op, conflict_id, strategy, "panic",
                                          <<>>, {}, c)
               \/ /\ Fault(fail, "skill_repo.update")
                  /\ upd # <<>>
                  /\ UNCHANGED <<skills, conflicts, output>>
                  /\ last' = ConflictCall(op, conflict_id, strategy, "Database",
                                          <<>>, {}, c)
               \/ /\ Fault(fail, "conflict_repo.update")
                  /\ skills' = sk
                  /\ UNCHANGED <<conflicts, output>>
                  /\ last' = ConflictCall(op, conflict_id, strategy, "Database",
                                          upd, {}, c)
               \/ /\ Fault(fail, "rebuild_all")
                  /\ skills' = sk
                  /\ conflicts' =
                       conflict_repo_update(conflicts, conflict_id, resolved)
                  /\ output' \in rebuild_allFailed(output, sk, content)
                  /\ last' = ConflictCall(op, conflict_id, strategy, "Io",
                                          upd \o <<"conflict_repo.update",
                                                   "publish ConflictResolved">>,
                                          {}, c)
               \/ /\ NoFault(fail)
                  /\ skills' = sk
                  /\ conflicts' =
                       conflict_repo_update(conflicts, conflict_id, resolved)
                  /\ output' = rebuild_all(output, sk, content)
                  /\ last' = ConflictCall(op, conflict_id, strategy, "Ok",
                                          upd \o <<"conflict_repo.update",
                                                   "publish ConflictResolved",
                                                   "rebuild_all">>,
                                          ScopesOf(sk), c)

\* ConflictService::resolve(conflict_id, strategy)
Resolve(conflict_id, strategy, fail) ==
  ResolveCall("resolve", conflict_id, strategy, fail)

\* ConflictService::ignore(conflict_id)
Ignore(conflict_id, fail) == ResolveCall("ignore", conflict_id, "Ignore", fail)

\* --------------------------------------------------------------- commands

\* The scope texts an export file carries: format!("{}", skill.scope), as a
\* prefix and the rest
ScopeTexts == {<<"global">>, <<"project:", "/p1">>}

\* import's parse of the scope text: starts_with("project:") and strip_prefix
ImportScope(text) ==
  IF text # <<>> /\ text[1] = "project:" THEN Project(text[2]) ELSE Global

\* Names the skills of an import file carry
ImportNameList == << <<"b">>, <<"c">>, <<"a">>, <<"a", "b">>, <<"a", "c">> >>

ImportPriorities == {50, 100}

\* The import files, MaxImported exported skills each: the files whose skills
\* carry the names of the list in order, and one file that repeats a name
ImportFiles ==
  {[k \in 1..MaxImported |->
      [name |-> ImportNameList[k], scope |-> sc[k], enabled |-> en[k],
       priority |-> pr[k], content |-> ContentAlways]] :
     sc \in [1..MaxImported -> ScopeTexts],
     en \in [1..MaxImported -> BOOLEAN],
     pr \in [1..MaxImported -> ImportPriorities]}
  \cup
  {[k \in 1..MaxImported |->
      [name |-> ImportNameList[1], scope |-> <<"global">>, enabled |-> TRUE,
       priority |-> 50, content |-> ContentAlways]]}

\* Skill::builder(name).scope(..).enabled(..).priority(..).build() of an
\* exported skill, then content_hash set
ImportedSkill(exported, t) ==
  [name |-> exported.name, scope |-> ImportScope(exported.scope),
   enabled |-> exported.enabled,
   content_hash |-> hash_content(exported.content),
   updated_at |-> t, priority |-> exported.priority]

\* import's loop over the file, without --merge and --dry-run: a skill whose
\* name exists is skipped, any other is stored and created
RECURSIVE ImportLoop(_, _, _, _, _)
ImportLoop(sk, ct, next, file, t) ==
  IF file = <<>> THEN [skills |-> sk, content |-> ct, next |-> next]
  ELSE LET exported == Head(file)
       IN  IF get_by_name(sk, exported.name) # {}
             THEN ImportLoop(sk, ct, next, Tail(file), t)
             ELSE ImportLoop(Put(sk, next, ImportedSkill(exported, t)),
                             Put(ct, next, exported.content),
                             next + 1, Tail(file), t)

\* The import command (the stores do not fail); rebuild_all runs when a skill
\* was imported
Import(file) ==
  /\ nextSkill + Len(file) - 1 <= MaxImported
  /\ \E done \in {ImportLoop(skills, content, nextSkill, file, now)} :
    LET imported == done.next - nextSkill
    IN  /\ imported > 0
        /\ Tick
        /\ skills' = done.skills
        /\ content' = done.content
        /\ nextSkill' = done.next
        /\ output' = rebuild_all(output, done.skills, done.content)
        /\ UNCHANGED <<conflicts, nextConflict, faults>>
        /\ last' = Call("import", <<>>, 0, "", "Ok",
                        Flatten([k \in 1..imported |->
                          <<"storage.store", "repository.create">>])
                          \o <<"rebuild_all">>,
                        ScopesOf(done.skills))

\* The sync command: rebuild_all
Sync ==
  /\ output' = rebuild_all(output, skills, content)
  /\ UNCHANGED <<skills, content, conflicts, now, nextSkill, nextConflict,
                 faults>>
  /\ last' = Call("sync", <<>>, 0, "", "Ok", <<"rebuild_all">>,
                  ScopesOf(skills))

\* MergeService::merge(scope), called on its own
Merge(scope) ==
  /\ output' = merge(output, skills, content, scope)
  /\ UNCHANGED <<skills, content, conflicts, now, nextSkill, nextConflict,
                 faults>>
  /\ last' = Call("merge", <<>>, 0, "", "Ok", <<"merge">>, {scope})

\* -------------------------------------------------------- specification

\* The steps of a call that can fail
Fails ==
  {"none", "storage.store", "repository.create", "merge", "storage.delete",
   "repository.delete", "repository.update", "skill_repo.update",
   "conflict_repo.update", "rebuild_all"}

\* The steps that can fail now: none once the failures of the behaviour are
\* used up
FailsNow == IF faults > 0 THEN Fails ELSE {"none"}

\* Conflict ids a caller can name: the stored ones and one that is unknown
ConflictIds == DOMAIN conflicts \cup {nextConflict}

Next ==
  \/ \E name \in Names, to \in AddScopes, fetched \in Contents,
        fail \in FailsNow :
       Add(name, to, fetched, fail)
  \/ \E name \in Names, fail \in FailsNow : Remove(name, fail)
  \/ \E name \in Names, fail \in FailsNow : Enable(name, fail)
  \/ \E name \in Names, fail \in FailsNow : Disable(name, fail)
  \/ Detect
  \/ \E id \in ConflictIds, strategy \in Strategies, fail \in FailsNow :
       Resolve(id, strategy, fail)
  \/ \E id \in ConflictIds, fail \in FailsNow : Ignore(id, fail)

\* No step fails
Spec == Init /\ [][Next]_vars

\* Up to MaxFaults steps fail
InitFaults ==
  /\ skills = <<>>
  /\ content = <<>>
  /\ conflicts = <<>>
  /\ output = [s \in Scopes |-> Absent]
  /\ now = 1
  /\ nextSkill = 1
  /\ nextConflict = 1
  /\ faults = MaxFaults
  /\ last = Call("init", <<>>, 0, "", "Ok", <<>>, {})

SpecFaults == InitFaults /\ [][Next]_vars

\* The merge engine over imported registries
NextMerge ==
  \/ \E file \in ImportFiles : Import(file)
  \/ Sync
  \/ \E scope \in Scopes : Merge(scope)

SpecMerge == Init /\ [][NextMerge]_vars

\* ------------------------------------------------------ detection runs

\* Contents of the registered skills
ContentBoth ==
  <<"*", " ", "n", "e", "v", "e", "r", " ", "u", "s", "e", " ", "t", "a",
    "b", "s", "\n", "-", " ", "A", "l", "w", "a", "y", "s", " ", "u", "s",
    "e", " ", "t", "a", "b", "s">>

ContentMust ==
  <<"-", " ", "M", "u", "s", "t", " ", "n", "o", "t", " ", "u", "s", "e",
    " ", "t", "a", "b", "s", "\n", "-", " ", "m", "u", "s", "t", " ", "u",
    "s", "e", " ", "t", "a", "b", "s">>

DetectContents == {ContentAlways, ContentBoth, ContentMust}

\* A registry as add, enable, disable and a remove that failed half way leave
\* it: MaxDetectSkills global skills of default priority, each enabled or
\* not, each stored with a content, of which at most one has since lost its
\* content (remove deletes the content, then the registry's delete fails)
InitDetect ==
  /\ \E ct \in [1..MaxDetectSkills -> DetectContents],
        en \in [1..MaxDetectSkills -> BOOLEAN],
        lost \in {{}} \cup {{i} : i \in 1..MaxDetectSkills} :
       /\ skills = [i \in 1..MaxDetectSkills |->
                      [NewSkill(ImportNameList[i], Global,
                                hash_content(ct[i]), 0)
                         EXCEPT !.enabled = en[i]]]
       /\ content = [i \in (1..MaxDetectSkills) \ lost |-> ct[i]]
  /\ conflicts = <<>>
  /\ output = [s \in Scopes |-> Absent]
  /\ now = 1
  /\ nextSkill = MaxDetectSkills + 1
  /\ nextConflict = 1
  /\ faults = 0
  /\ last = Call("init", <<>>, 0, "", "Ok", <<>>, {})

\* detect, run over such a registry
SpecDetect == InitDetect /\ [][Detect]_vars

\* ------------------------------------------------- detection across scopes

\* The contents of the skills: the odd ones say always, the even ones never
ScopesContent(i) == IF i % 2 = 1 THEN ContentAlways ELSE ContentNever

\* A registry as adds leave it: MaxSkills enabled skills, each in the global
\* scope or in one of two projects, each with its content, and the outputs
\* merged
InitScopes ==
  /\ \E sc \in [1..MaxSkills -> Scopes] :
       /\ skills = [i \in 1..MaxSkills |->
                      NewSkill(ImportNameList[i], sc[i],
                               hash_content(ScopesContent(i)), 0)]
       /\ content = [i \in 1..MaxSkills |-> ScopesContent(i)]
       /\ output = rebuild_all([s \in Scopes |-> Absent], skills, content)
  /\ conflicts = <<>>
  /\ now = 1
  /\ nextSkill = MaxSkills + 1
  /\ nextConflict = 1
  /\ faults = 0
  /\ last = Call("init", <<>>, 0, "", "Ok", <<>>, {})

NextScopes ==
  \/ Detect
  \/ \E id \in ConflictIds, strategy \in {"DisableSkillA", "DisableSkillB"} :
       Resolve(id, strategy, "none")

\* detect and resolve, run over such a registry
SpecScopes == InitScopes /\ [][NextScopes]_vars

\* ------------------------------------------------- priorities at the edge

\* Priorities an import file can carry: any i32; the default, and the values
\* at and next to the first one a "+ 10" overflows on
EdgePriorities == {50, I32Max - 10, I32Max - 9, I32Max}

\* A registry as import leaves it: two global skills whose contents
\* contradict each other, with the priorities their file carries, and the
\* global output merged
InitPriorities ==
  /\ \E pa, pb \in EdgePriorities :
       /\ skills =
            <<ImportedSkill([name |-> ImportNameList[1], scope |-> <<"global">>,
                             enabled |-> TRUE, priority |-> pa,
                             content |-> ContentAlways], 0),
              ImportedSkill([name |-> ImportNameList[2], scope |-> <<"global">>,
                             enabled |-> TRUE, priority |-> pb,
                             content |-> ContentNever], 0)>>
       /\ content = <<ContentAlways, ContentNever>>
       /\ output = rebuild_all([s \in Scopes |-> Absent], skills, content)
  /\ conflicts = <<>>
  /\ now = 1
  /\ nextSkill = 3
  /\ nextConflict = 1
  /\ faults = 0
  /\ last = Call("init", <<>>, 0, "", "Ok", <<>>, {})

NextPriorities ==
  \/ Detect
  \/ \E id \in DOMAIN conflicts, strategy \in {"PrioritizeA", "PrioritizeB"} :
       Resolve(id, strategy, "none")

\* detect and the Prioritize resolutions, run over such a registry
SpecPriorities == InitPriorities /\ [][NextPriorities]_vars

\* ------------------------------------------------- conflict lifecycle

\* C1: the status of a stored conflict only ever changes from Unresolved to
\* Resolved or to Ignored; a conflict that is Resolved or Ignored keeps its
\* status in every later step, and no conflict leaves the store.
C1_StatusTransitions ==
  [][\A id \in DOMAIN conflicts :
       /\ id \in DOMAIN conflicts'
       /\ conflicts'[id].status # conflicts[id].status
            => /\ conflicts[id].status = "Unresolved"
               /\ conflicts'[id].status \in {"Resolved", "Ignored"}]_vars

\* A conflict that was Resolved when resolve loaded it is Resolved afterwards
C1_ResolvedAgain ==
  /\ last.op \in {"resolve", "ignore"}
  /\ last.result = "Ok"
  /\ last.loaded # None
  /\ last.loaded[1].status = "Resolved"
  /\ conflicts[last.cid].status = "Resolved"

\* C2: resolve(id, Ignore) and ignore(id) on an Unresolved conflict leave it
\* Ignored, resolve with any other strategy leaves it Resolved, and resolved_at
\* is set in both cases.
C2_IgnoreLeavesIgnored ==
  (/\ last.op \in {"resolve", "ignore"}
   /\ last.result = "Ok"
   /\ last.loaded # None
   /\ last.loaded[1].status = "Unresolved")
    => /\ conflicts[last.cid].status =
            (IF last.strategy = "Ignore" THEN "Ignored" ELSE "Resolved")
       /\ conflicts[last.cid].resolved_at # None

\* ignore(id) on an Unresolved conflict has left it Resolved
C2_IgnoredIsResolved ==
  /\ last.op = "ignore"
  /\ last.result = "Ok"
  /\ last.loaded # None
  /\ last.loaded[1].status = "Unresolved"
  /\ conflicts[last.cid].status = "Resolved"

\* C3: resolve or ignore of a conflict that is already Resolved or Ignored
\* returns success and changes nothing: the conflict keeps its status and its
\* resolved_at, and every skill keeps its enabled flag and its priority.
C3_ReResolveIsNoOp ==
  [][(/\ last'.op \in {"resolve", "ignore"}
      /\ last'.cid \in DOMAIN conflicts
      /\ is_resolved(conflicts[last'.cid]))
       => /\ last'.result = "Ok"
          /\ conflicts'[last'.cid].status = conflicts[last'.cid].status
          /\ conflicts'[last'.cid].resolved_at = conflicts[last'.cid].resolved_at
          /\ \A i \in DOMAIN skills :
               /\ i \in DOMAIN skills'
               /\ skills'[i].enabled = skills[i].enabled
               /\ skills'[i].priority = skills[i].priority]_vars

\* A second resolve of a Resolved conflict has moved its resolved_at and
\* disabled a skill that was never disabled by a skill command
C3_ReResolveApplied ==
  /\ last.op = "resolve"
  /\ last.result = "Ok"
  /\ last.loaded # None
  /\ last.loaded[1].status = "Resolved"
  /\ conflicts[last.cid].resolved_at # last.loaded[1].resolved_at
  /\ last.strategy = "DisableSkillA"
  /\ last.loaded[1].skill_a_id \in DOMAIN skills
  /\ ~skills[last.loaded[1].skill_a_id].enabled
  /\ skills[last.loaded[1].skill_a_id].updated_at
       < last.loaded[1].detected_at

\* C4: resolve with an id that is not in the conflict store fails with
\* ConflictNotFound for every strategy; it changes no skill record, no conflict
\* record and no merged output, publishes no ConflictResolved event and runs
\* no rebuild.
C4_UnknownConflict ==
  [][(last'.op = "resolve" /\ last'.cid \notin DOMAIN conflicts)
       => /\ last'.result = "ConflictNotFound"
          /\ skills' = skills
          /\ conflicts' = conflicts
          /\ output' = output
          /\ \A k \in 1..Len(last'.steps) :
               last'.steps[k] \notin {"publish ConflictResolved", "rebuild_all"}]_vars

\* resolve of an unknown id was refused while conflicts are stored
C4_RefusedWithStoredConflicts ==
  /\ last.op = "resolve"
  /\ last.cid \notin DOMAIN conflicts
  /\ last.result = "ConflictNotFound"
  /\ DOMAIN conflicts # {}
  /\ \E i \in DOMAIN skills : skills[i].enabled

\* C5: when no store fails, resolve(id, DisableSkillA) on an Unresolved
\* conflict returns success, the conflict is no longer Unresolved, and the
\* conflict's skill_a, if the registry holds it, is disabled; DisableSkillB
\* likewise for skill_b.
C5_DisableStrategy ==
  (/\ last.op = "resolve"
   /\ last.strategy \in {"DisableSkillA", "DisableSkillB"}
   /\ last.loaded # None
   /\ last.loaded[1].status = "Unresolved")
    => LET c == last.loaded[1]
           target == IF last.strategy = "DisableSkillA"
                       THEN c.skill_a_id ELSE c.skill_b_id
       IN  /\ last.result = "Ok"
           /\ conflicts[last.cid].status # "Unresolved"
           /\ target \in DOMAIN skills => ~skills[target].enabled

\* resolve(id, DisableSkillA) of an Unresolved conflict whose skill_a has been
\* removed from the registry returned success
C5_DisableMissingSkill ==
  /\ last.op = "resolve"
  /\ last.strategy = "DisableSkillA"
  /\ last.result = "Ok"
  /\ last.loaded # None
  /\ last.loaded[1].status = "Unresolved"
  /\ last.loaded[1].skill_a_id \notin DOMAIN skills
  /\ last.loaded[1].skill_b_id \in DOMAIN skills
  /\ conflicts[last.cid].status = "Resolved"

C7_DisabledSkillLeavesOutput ==
  /\ (/\ last.op = "resolve"
      /\ last.strategy = "DisableSkillB"
      /\ last.result = "Ok"
      /\ last.loaded[1].skill_b_id \in DOMAIN skills)
       => LET b == last.loaded[1].skill_b_id
              file == output[skills[b].scope]
          IN  /\ ~skills[b].enabled
              /\ conflicts[last.cid].status = "Resolved"
              /\ file.exists
              /\ \A k \in 1..Len(file.text) : file.text[k].skill # b
  /\ \A id \in DOMAIN conflicts :
       LET b == conflicts[id].skill_b_id
       IN  (/\ b \in DOMAIN skills
            /\ ~skills[b].enabled
            /\ skills[b].scope \in last.merged)
             => LET file == output[skills[b].scope]
                IN  \A k \in 1..Len(file.text) : file.text[k].skill # b

\* A later call has merged the scope of a skill_b that resolve disabled (the
\* skill was enabled when the conflict was detected and no skill command has
\* touched it since), and the output holds the other skill alone
C7_MergedAfterDisable ==
  \E id \in DOMAIN conflicts :
    LET b == conflicts[id].skill_b_id
    IN  /\ conflicts[id].status = "Resolved"
        /\ b \in DOMAIN skills
        /\ ~skills[b].enabled
        /\ skills[b].updated_at < conflicts[id].detected_at
        /\ last.op \in {"add", "remove", "enable", "disable", "ignore"}
        /\ last.result = "Ok"
        /\ last.name # skills[b].name
        /\ skills[b].scope \in last.merged
        /\ output[skills[b].scope].text # <<>>

\* C8: when no store fails, whenever add, remove, enable, disable, resolve or
\* ignore returns success having changed the registry, the output of every
\* affected scope is what merge computes from the registry and the content
\* store as the call leaves them: the scope of the skill that was added,
\* removed or changed, and for resolve every scope among the skills.
C8_OutputFreshAfterMutation ==
  [][(/\ last'.op \in {"add", "remove", "enable", "disable", "resolve", "ignore"}
      /\ last'.result = "Ok"
      /\ skills' # skills)
       => LET changed ==
                {i \in DOMAIN skills \cup DOMAIN skills' :
                   \/ i \notin DOMAIN skills
                   \/ i \notin DOMAIN skills'
                   \/ skills'[i] # skills[i]}
              affected ==
                IF last'.op \in {"resolve", "ignore"}
                  THEN {skills'[i].scope : i \in DOMAIN skills'}
                  ELSE {IF i \in DOMAIN skills'
                          THEN skills'[i].scope ELSE skills[i].scope :
                        i \in changed}
          IN  /\ affected # {}
              /\ \A s \in affected :
                   output'[s] = Written(MergeText(skills', content', s))]_vars

\* remove of a project skill has succeeded and the output of its scope is the
\* merge of the skill that is left there
C8_RemovedAndMerged ==
  /\ last.op = "remove"
  /\ last.result = "Ok"
  /\ get_by_name(skills, last.name) = {}
  /\ \E i \in DOMAIN skills :
       /\ skills[i].scope = Project("/p1")
       /\ skills[i].enabled
       /\ output[Project("/p1")] =
            Written(<<[skill |-> i, content |-> content[i]]>>)

\* --------------------------------------------------------- merge engine

\* C9: a merged output holds a section of a skill only if the skill is
\* enabled and its scope is the output's scope exactly: the Global output
\* holds no project skill, a project's output holds no global skill and no
\* skill of another path, and no output holds a disabled skill.
C9_MergeSelectsEnabledOfScope ==
  \A s \in Scopes :
    \A k \in 1..Len(output[s].text) :
      LET i == output[s].text[k].skill
      IN  /\ i \in DOMAIN skills
          /\ skills[i].enabled
          /\ skills[i].scope = s

\* merge(Global) has run over a registry with an enabled global skill, a
\* disabled global skill and an enabled project skill, and the Global output
\* holds the one section
C9_MergedAmongOthers ==
  /\ last.op = "merge"
  /\ last.merged = {Global}
  /\ \E i, j, p \in DOMAIN skills :
       /\ skills[i].scope = Global /\ skills[i].enabled
       /\ skills[j].scope = Global /\ ~skills[j].enabled
       /\ skills[p].scope = Project("/p1") /\ skills[p].enabled
       /\ output[Global].exists
       /\ Len(output[Global].text) = 1
       /\ output[Global].text[1].skill = i

\* C10: in a merged output the section of a skill of higher priority comes
\* before that of a skill of lower priority, and sections of skills of equal
\* priority are in ascending order of name.
C10_MergeOrder ==
  \A s \in Scopes :
    \A k, m \in 1..Len(output[s].text) :
      k < m =>
        LET i == output[s].text[k].skill
            j == output[s].text[m].skill
        IN  \/ skills[i].priority > skills[j].priority
            \/ /\ skills[i].priority = skills[j].priority
               /\ BytesLess(skills[i].name, skills[j].name)

\* Enabled global skills b (100), c (50) and a (50) are merged as b, a, c
C10_ScenarioOrder ==
  /\ DOMAIN skills = {1, 2, 3}
  /\ \A i \in DOMAIN skills : skills[i].enabled /\ skills[i].scope = Global
  /\ skills[1].name = <<"b">> /\ skills[1].priority = 100
  /\ skills[2].name = <<"c">> /\ skills[2].priority = 50
  /\ skills[3].name = <<"a">> /\ skills[3].priority = 50
  /\ output[Global].exists
  /\ [k \in 1..Len(output[Global].text) |-> output[Global].text[k].skill]
       = <<1, 3, 2>>

\* The text of a merged document: the name and the content of every section
Rendered(sk, text) ==
  [k \in 1..Len(text) |-> <<sk[text[k].skill].name, text[k].content>>]

\* The registry and the content store with the rows stored under other ids, as
\* when the skills were added in another order
Reinserted(f, p) == [i \in {j \in DOMAIN p : p[j] \in DOMAIN f} |-> f[p[i]]]

\* C11: merge is deterministic. A merge or sync that follows a call which
\* merged the same scope, with the registry and the content store unchanged in
\* between, leaves that scope's output as it was; and the text a call has
\* written for a scope is the same whatever order the skills were added in.
C11_MergeDeterministic ==
  /\ [][(/\ last'.op \in {"merge", "sync"}
          /\ skills' = skills
          /\ content' = content)
           => \A s \in last'.merged \cap last.merged :
                output'[s] = output[s]]_vars
  /\ [](\A s \in last.merged :
          \A p \in Permutations(DOMAIN skills) :
            Rendered(skills, output[s].text)
              = Rendered(Reinserted(skills, p),
                         MergeText(Reinserted(skills, p),
                                   Reinserted(content, p), s)))

\* sync has rewritten a Global output in which a skill added later stands
\* before a skill of the same priority added earlier
C11_RepeatedMerge ==
  /\ last.op = "sync"
  /\ Global \in last.merged
  /\ \E k, m \in 1..Len(output[Global].text) :
       /\ k < m
       /\ output[Global].text[k].skill > output[Global].text[m].skill
       /\ skills[output[Global].text[k].skill].priority
            = skills[output[Global].text[m].skill].priority

\* The steps after which a call merges
PublishSteps ==
  {"publish SkillAdded", "publish SkillRemoved", "publish SkillEnabled",
   "publish SkillDisabled", "publish ConflictResolved"}

\* The call got as far as its merge
ReachedMerge(call) ==
  \E k \in 1..Len(call.steps) : call.steps[k] \in PublishSteps

\* C12: a selected skill without content never fails the merge. A call that
\* reaches its merge while no step fails returns success, and every output it
\* writes holds exactly the enabled skills of the scope whose content is in
\* the store, each once, with that content, in merge order.
C12_MissingContentSkipped ==
  [][ReachedMerge(last') =>
       /\ faults' = faults => last'.result = "Ok"
       /\ last'.result = "Ok" =>
            \A s \in last'.merged :
              LET text == output'[s].text
                  available == {i \in DOMAIN skills' :
                                  /\ skills'[i].enabled
                                  /\ skills'[i].scope = s
                                  /\ i \in DOMAIN content'}
              IN  /\ output'[s].exists
                  /\ {text[k].skill : k \in 1..Len(text)} = available
                  /\ Len(text) = Cardinality(available)
                  /\ \A k \in 1..Len(text) :
                       text[k].content = content'[text[k].skill]
                  /\ \A k, m \in 1..Len(text) :
                       k < m => OrderBefore(skills', text[k].skill,
                                            text[m].skill)]_vars

\* A call has merged a scope that holds an enabled skill without content and
\* an enabled skill with content, and the output is the one section
C12_MergedAroundMissing ==
  /\ last.result = "Ok"
  /\ last.merged # {}
  /\ \E s \in last.merged :
       \E i, j \in DOMAIN skills :
         /\ skills[i].enabled /\ skills[i].scope = s /\ i \notin DOMAIN content
         /\ skills[j].enabled /\ skills[j].scope = s /\ j \in DOMAIN content
         /\ output[s] = Written(<<[skill |-> j, content |-> content[j]]>>)

\* C13: rebuild_all merges every scope that occurs among the registered
\* skills, enabled or not, and no other: after a call that ran rebuild_all the
\* output of each such scope is the merge of the registry as it is, so a scope
\* whose skills are all disabled has an output that exists and is empty.
C13_RebuildAllScopes ==
  (/\ last.op \in {"resolve", "ignore"}
   /\ last.result = "Ok")
    => /\ last.merged = {skills[i].scope : i \in DOMAIN skills}
       /\ \A i \in DOMAIN skills :
            LET s == skills[i].scope
            IN  /\ output[s] = Written(MergeText(skills, content, s))
                /\ (\A j \in DOMAIN skills :
                      skills[j].scope = s => ~skills[j].enabled)
                     => output[s] = Written(<<>>)

\* resolve has disabled the only skill of a project scope (a skill that no
\* skill command had disabled), and rebuild_all has left the project's output
\* empty and the Global output with its one skill
C13_EmptiedScope ==
  /\ last.op = "resolve"
  /\ last.result = "Ok"
  /\ last.strategy \in {"DisableSkillA", "DisableSkillB"}
  /\ last.merged = {Global, Project("/p1")}
  /\ output[Project("/p1")] = Written(<<>>)
  /\ Len(output[Global].text) = 1
  /\ \E i \in DOMAIN skills :
       /\ skills[i].scope = Project("/p1")
       /\ ~skills[i].enabled
       /\ i \in DOMAIN content
       /\ skills[i].updated_at < last.loaded[1].detected_at

\* ---------------------------------------------------------- output writer

\* C14: a write of a merged output is atomic. In every step each scope's
\* output file is either the file as it was or the complete new merged
\* content, never an empty or partly written file, also when the write fails.
C14_AtomicWrite ==
  [][\A s \in Scopes :
       \/ output'[s] = output[s]
       \/ output'[s] = Written(MergeText(skills', content', s))]_vars

\* add of a second skill to a scope failed in its merge, and the scope's
\* output, which held the first skill, is an empty file
C14_TruncatedOutput ==
  /\ last.op = "add"
  /\ last.result = "Io"
  /\ ReachedMerge(last)
  /\ \E i \in get_by_name(skills, last.name) :
       /\ output[skills[i].scope] = Written(<<>>)
       /\ \E j \in DOMAIN skills \ {i} :
            /\ skills[j].scope = skills[i].scope
            /\ skills[j].enabled
            /\ j \in DOMAIN content
            /\ skills[j].updated_at < skills[i].updated_at

\* C15: merge fails only when the output writer fails, and then the output
\* that was there is untouched. A skill command that reaches its merge without
\* a failing step returns success, and one whose merge fails leaves every
\* output file exactly as it was.
C15_FailedWriteKeepsOutput ==
  [][(/\ last'.op \in {"add", "remove", "enable", "disable"}
      /\ ReachedMerge(last'))
       => /\ faults' = faults => last'.result = "Ok"
          /\ last'.result # "Ok" => output' = output]_vars

\* disable of one of two skills of a scope failed in its merge, and the
\* scope's output, which held both, is an empty file
C15_OutputLostOnFailure ==
  /\ last.op = "disable"
  /\ last.result = "Io"
  /\ ReachedMerge(last)
  /\ \E i \in get_by_name(skills, last.name) :
       /\ ~skills[i].enabled
       /\ output[skills[i].scope] = Written(<<>>)
       /\ \E j \in DOMAIN skills \ {i} :
            /\ skills[j].scope = skills[i].scope
            /\ skills[j].enabled
            /\ j \in DOMAIN content

\* ------------------------------------------------------------- detection

\* C16: every conflict that detect stores references two distinct skills,
\* both in the registry and both enabled when detect ran; no conflict is
\* stored for a disabled skill or for a skill paired with itself.
C16_ConflictsOfEnabledPairs ==
  [][\A id \in DOMAIN conflicts' \ DOMAIN conflicts :
       LET a == conflicts'[id].skill_a_id
           b == conflicts'[id].skill_b_id
       IN  /\ a # b
           /\ a \in DOMAIN skills /\ skills[a].enabled
           /\ b \in DOMAIN skills /\ skills[b].enabled]_vars

\* detect has stored a conflict between two enabled skills while a disabled
\* skill with the very content of one of them is in no conflict
C16_DisabledLeftOut ==
  /\ last.op = "detect"
  /\ conflicts # <<>>
  /\ \E i \in DOMAIN skills :
       /\ ~skills[i].enabled
       /\ \A id \in DOMAIN conflicts :
            conflicts[id].skill_a_id # i /\ conflicts[id].skill_b_id # i
       /\ \E id \in DOMAIN conflicts :
            /\ conflicts[id].conflict_type = "Contradictory"
            /\ content[i] = content[conflicts[id].skill_a_id]

\* C17: no single skill fails detect. Every detect returns success; a conflict
\* it stores references only skills whose content is in the store; and when
\* fewer than two enabled skills have content in the store, detect stores no
\* conflict and publishes nothing.
C17_DetectSkipsUnreadable ==
  [][last'.op = "detect" =>
       /\ last'.result = "Ok"
       /\ \A id \in DOMAIN conflicts' \ DOMAIN conflicts :
            /\ conflicts'[id].skill_a_id \in DOMAIN content
            /\ conflicts'[id].skill_b_id \in DOMAIN content
       /\ Cardinality({i \in DOMAIN skills :
                         skills[i].enabled /\ i \in DOMAIN content}) < 2
            => /\ conflicts' = conflicts
               /\ last'.steps = <<>>]_vars

\* detect has returned success over a registry with an enabled skill
\* without content, and has stored the conflicts of the other skills
C17_UnreadableSkipped ==
  /\ last.op = "detect"
  /\ last.result = "Ok"
  /\ conflicts # <<>>
  /\ \E i \in DOMAIN skills :
       /\ skills[i].enabled
       /\ i \notin DOMAIN content
       /\ \A id \in DOMAIN conflicts :
            conflicts[id].skill_a_id # i /\ conflicts[id].skill_b_id # i

\* A finding with its two sides exchanged
SwapSides(f) ==
  [f EXCEPT !.skill_a_id = f.skill_b_id, !.skill_b_id = f.skill_a_id,
            !.line_a = f.line_b, !.line_b = f.line_a,
            !.content_a = f.content_b, !.content_b = f.content_a]

\* How often x occurs in a list
Occurrences(list, x) == Cardinality({k \in 1..Len(list) : list[k] = x})

\* C18: detection is symmetric. For any two skills detect compares, the
\* findings of detection on [A, B] and on [B, A] are the same multiset once
\* the sides of one are exchanged: same types, descriptions, suggestions and
\* line pairs, with skill, line and content of a and b swapped.
C18_DetectionSymmetric ==
  \A i, j \in {k \in DOMAIN skills \cap DOMAIN content : skills[k].enabled} :
    i < j =>
      \A ab \in {detect_conflicts_internal(
                   << <<i, content[i]>>, <<j, content[j]>> >>)} :
        \A ba \in {detect_conflicts_internal(
                     << <<j, content[j]>>, <<i, content[i]>> >>)} :
          /\ Len(ab) = Len(ba)
          /\ \A k \in 1..Len(ab) :
               Occurrences(ab, ab[k]) = Occurrences(ba, SwapSides(ab[k]))

\* detect has stored a Duplicate and a Contradictory conflict of one pair of
\* skills, the latter between different lines of the two contents
C18_BothKindsStored ==
  /\ last.op = "detect"
  /\ \E d, c \in DOMAIN conflicts :
       /\ conflicts[d].conflict_type = "Duplicate"
       /\ conflicts[c].conflict_type = "Contradictory"
       /\ conflicts[c].skill_a_id = conflicts[d].skill_a_id
       /\ conflicts[c].skill_b_id = conflicts[d].skill_b_id
       /\ conflicts[c].line_a # conflicts[c].line_b
       /\ conflicts[c].content_a # conflicts[c].content_b

\* ---------------------------------------------------------------- registry

\* C19: removing a skill removes its conflicts, so every stored conflict
\* references skills that are in the registry.
C19_ConflictsReferenceSkills ==
  \A id \in DOMAIN conflicts :
    /\ conflicts[id].skill_a_id \in DOMAIN skills
    /\ conflicts[id].skill_b_id \in DOMAIN skills

\* remove has succeeded and a conflict of the removed skill is still stored,
\* unresolved
C19_ConflictOutlivesSkill ==
  /\ last.op = "remove"
  /\ last.result = "Ok"
  /\ get_by_name(skills, last.name) = {}
  /\ \E id \in DOMAIN conflicts :
       /\ conflicts[id].status = "Unresolved"
       /\ \/ conflicts[id].skill_a_id \notin DOMAIN skills
          \/ conflicts[id].skill_b_id \notin DOMAIN skills

\* C20: skill names are unique across the registry, whatever the scope. No
\* two registered skills share a name; an add never gets past its check with
\* a name that is registered, in the same or in another scope; and an add
\* refused with SkillExists leaves the registry, the content store and the
\* outputs as they were.
C20_NamesUnique ==
  [][/\ \A i, j \in DOMAIN skills' :
          skills'[i].name = skills'[j].name => i = j
     /\ last'.op = "add" =>
          IF last'.result = "SkillExists"
            THEN /\ skills' = skills
                 /\ content' = content
                 /\ output' = output
            ELSE \A i \in DOMAIN skills : skills[i].name # last'.name]_vars

\* add was refused with SkillExists while each name of the commands is
\* registered, one in the global scope and one in a project's
C20_RefusedAcrossScopes ==
  /\ last.op = "add"
  /\ last.result = "SkillExists"
  /\ \E i, j \in DOMAIN skills :
       /\ skills[i].scope = Global
       /\ skills[j].scope = Project("/p1")
       /\ {skills[i].name, skills[j].name} = Names

\* ------------------------------------------------- resolution and detection

\* The stores and the clock, all that a call can change but its own record
Durable ==
  <<skills, content, conflicts, output, now, nextSkill, nextConflict, faults>>

\* C21: enable and disable are idempotent. enable(name) of a skill that is
\* enabled, and disable(name) of a skill that is disabled, return Ok and
\* change nothing: no registry update, no updated_at, no event, no merge.
\* A call that did change something leaves the skill in the state asked for,
\* so that a second call is the call that changes nothing.
C21_EnableDisableIdempotent ==
  [][\A name \in Names :
       /\ (/\ last'.op = "enable"
           /\ \E i \in get_by_name(skills, name) : skills[i].enabled
           /\ Enable(name, "none"))
            => /\ UNCHANGED Durable
               /\ last'.result = "Ok"
               /\ last'.steps = <<>>
               /\ last'.merged = {}
       /\ (/\ last'.op = "disable"
           /\ \E i \in get_by_name(skills, name) : ~skills[i].enabled
           /\ Disable(name, "none"))
            => /\ UNCHANGED Durable
               /\ last'.result = "Ok"
               /\ last'.steps = <<>>
               /\ last'.merged = {}
       /\ (last'.op = "enable" /\ last'.result = "Ok"
             /\ Enable(name, "none"))
            => \A i \in get_by_name(skills', name) : skills'[i].enabled
       /\ (last'.op = "disable" /\ last'.result = "Ok"
             /\ Disable(name, "none"))
            => \A i \in get_by_name(skills', name) : ~skills'[i].enabled]_vars

\* disable was called on a skill that an earlier disable had disabled, and
\* returned Ok without a step
C21_DisabledTwice ==
  /\ last.op = "disable"
  /\ last.result = "Ok"
  /\ last.steps = <<>>
  /\ \E i \in DOMAIN skills : ~skills[i].enabled /\ skills[i].updated_at > 1

\* The skill a strategy names: skill A, skill B, or none
StrategyTarget(c, strategy) ==
  CASE strategy \in {"DisableSkillA", "PrioritizeA"} -> {c.skill_a_id}
    [] strategy \in {"DisableSkillB", "PrioritizeB"} -> {c.skill_b_id}
    [] OTHER -> {}

ResolveTail ==
  <<"conflict_repo.update", "publish ConflictResolved", "rebuild_all">>

\* C23: within one successful resolve the steps happen in this order: the
\* strategy's skill update is persisted, then the conflict's terminal status
\* and resolved_at, then ConflictResolved is published, then rebuild_all runs
\* over all scopes. rebuild_all runs on every successful resolve, Ignore
\* included, and never before the skill update: the outputs it leaves are
\* those of the registry after the update.
C23_ResolveStepOrder ==
  [][(last'.op \in {"resolve", "ignore"} /\ last'.result = "Ok") =>
       /\ last'.steps \in {<<"skill_repo.update">> \o ResolveTail, ResolveTail}
       /\ skills' # skills => last'.steps[1] = "skill_repo.update"
       /\ last'.strategy = "Ignore" => last'.steps = ResolveTail
       /\ is_resolved(conflicts'[last'.cid])
       /\ conflicts'[last'.cid].resolved_at = Some(now)
       /\ last'.merged = ScopesOf(skills')
       /\ output' = rebuild_all(output, skills', content')]_vars

\* resolve(DisableSkillA) went through its four steps, and the output of the
\* disabled skill's scope, which held that skill's text before, is the one
\* merged from the registry after the update
C23_RebuiltAfterUpdate ==
  /\ last.op = "resolve"
  /\ last.strategy = "DisableSkillA"
  /\ last.result = "Ok"
  /\ Len(last.steps) = 4
  /\ LET a == last.loaded[1].skill_a_id
     IN  /\ a \in DOMAIN skills
         /\ a \in DOMAIN content
         /\ ~skills[a].enabled
         /\ output[skills[a].scope] =
              Written(MergeText(skills, content, skills[a].scope))
         /\ output[skills[a].scope] #
              Written(MergeText([skills EXCEPT ![a].enabled = TRUE], content,
                                skills[a].scope))

\* C24: a stored conflict has resolved_at set if and only if its status is
\* Resolved or Ignored, in every reachable state. A record that detect
\* creates starts Unresolved with resolved_at unset, no record is ever
\* removed, and only resolve and ignore change a stored record: detect and
\* the skill operations leave every existing record as it was.
C24_ResolvedAtIffTerminal ==
  /\ [][/\ DOMAIN conflicts \subseteq DOMAIN conflicts'
        /\ \A id \in DOMAIN conflicts' :
             IF id \in DOMAIN conflicts
               THEN conflicts'[id] # conflicts[id]
                      => /\ last'.op \in {"resolve", "ignore"}
                         /\ last'.cid = id
               ELSE /\ last'.op = "detect"
                    /\ conflicts'[id].status = "Unresolved"
                    /\ conflicts'[id].resolved_at = None]_vars
  /\ [](\A id \in DOMAIN conflicts :
          conflicts[id].resolved_at # None <=> is_resolved(conflicts[id]))

\* detect has stored a new Unresolved record beside a record that was
\* resolved before that detection, and has left the resolved record terminal
C24_DetectedBesideResolved ==
  /\ last.op = "detect"
  /\ last.steps # <<>>
  /\ \E i, j \in DOMAIN conflicts :
       /\ i < j
       /\ conflicts[i].status = "Resolved"
       /\ conflicts[i].resolved_at # None
       /\ conflicts[i].resolved_at[1] < conflicts[j].detected_at
       /\ conflicts[j].status = "Unresolved"
       /\ conflicts[j].resolved_at = None

\* C25: there is no rollback across the steps of resolve. When rebuild_all
\* fails, resolve returns that error while the strategy's skill update and
\* the conflict's terminal status and resolved_at stay persisted; when the
\* conflict's update fails, the skill update stays persisted and the
\* conflict is as it was; when the skill update fails, neither store has
\* changed. The stores are always those of the last step that completed.
C25_ResolveNoRollback ==
  [][(/\ last'.op \in {"resolve", "ignore"}
      /\ last'.loaded # None
      /\ last'.result # "Ok") =>
       LET c == last'.loaded[1]
           sk == ApplyStrategy(skills, c, last'.strategy)
           done == Range(last'.steps)
       IN  /\ faults' = faults - 1
           /\ "rebuild_all" \notin done
           /\ skills' = IF "skill_repo.update" \in done THEN sk ELSE skills
           /\ ("skill_repo.update" \notin done /\ "conflict_repo.update" \in done)
                => sk = skills
           /\ conflicts' =
                IF "conflict_repo.update" \in done
                  THEN [conflicts EXCEPT
                          ![last'.cid].status = "Resolved",
                          ![last'.cid].resolved_at = Some(now)]
                  ELSE conflicts
           /\ "conflict_repo.update" \in done <=> last'.result = "Io"
           /\ "conflict_repo.update" \notin done => output' = output]_vars

\* resolve(DisableSkillA) of an Unresolved conflict failed in rebuild_all: it
\* returned the error, and the skill is disabled and the conflict Resolved
C25_FailedAfterBothUpdates ==
  /\ last.op = "resolve"
  /\ last.strategy = "DisableSkillA"
  /\ last.result = "Io"
  /\ last.loaded[1].status = "Unresolved"
  /\ last.loaded[1].skill_a_id \in DOMAIN skills
  /\ ~skills[last.loaded[1].skill_a_id].enabled
  /\ conflicts[last.cid].status = "Resolved"
  /\ conflicts[last.cid].resolved_at # None

\* C26: every skill in the registry has content in the content store, in
\* every state reached through add, remove, enable and disable, also when a
\* storage, registry or merge step of one of them fails.
C26_RegisteredSkillsHaveContent ==
  \A i \in DOMAIN skills : i \in DOMAIN content

\* C26, as the code has it: a skill is registered with its content, and the
\* only step that leaves a registered skill without content is a remove of
\* that skill that fails before the record is deleted: in the content's
\* delete itself, or in the registry's delete that follows it. No step of
\* add, enable or disable, failing or not, and no other outcome of remove
\* does.
C26_ContentLostOnlyByFailedRemove ==
  [][\A i \in DOMAIN skills' :
       (i \notin DOMAIN content' /\ (i \notin DOMAIN skills
                                      \/ i \in DOMAIN content))
         => /\ last'.op = "remove"
            /\ last'.result \in {"Io", "Database"}
            /\ last'.steps \in {<<>>, <<"storage.delete">>}
            /\ last'.name = skills'[i].name
            /\ i \in DOMAIN skills]_vars

\* remove failed in the registry's delete after it had deleted the content:
\* the skill is still registered and enabled, and has no content
C26_ContentGoneSkillKept ==
  /\ last.op = "remove"
  /\ last.result = "Database"
  /\ last.steps = <<"storage.delete">>
  /\ \E i \in get_by_name(skills, last.name) :
       skills[i].enabled /\ i \notin DOMAIN content

\* C27: detect is append-only on the conflict store. It never updates or
\* deletes a stored record, and each call stores every finding as a new
\* record with a fresh id, status Unresolved and resolved_at unset, also
\* when the same finding (same skills, type and lines) is stored already or
\* was resolved before; n calls on unchanged skills leave n records of each
\* finding.
C27_DetectAppendOnly ==
  [][last'.op = "detect" =>
       \A found \in {Detected(skills, content)} :
         /\ \A id \in DOMAIN conflicts :
              id \in DOMAIN conflicts' /\ conflicts'[id] = conflicts[id]
         /\ DOMAIN conflicts' \ DOMAIN conflicts =
              nextConflict..(nextConflict + Len(found) - 1)
         /\ \A k \in 1..Len(found) :
              LET c == conflicts'[nextConflict + k - 1]
              IN  /\ c = BuildConflict(found[k], now)
                  /\ c.status = "Unresolved"
                  /\ c.resolved_at = None
         /\ skills' = skills /\ content' = content /\ output' = output]_vars

\* detect has stored a finding a second time, Unresolved, while the record
\* of the first time is Resolved
C27_StoredAgainAfterResolve ==
  /\ last.op = "detect"
  /\ \E i, j \in DOMAIN conflicts :
       /\ i < j
       /\ conflicts[i].status = "Resolved"
       /\ conflicts[j].status = "Unresolved"
       /\ conflicts[j].detected_at = now - 1
       /\ [conflicts[j] EXCEPT !.detected_at = 0] =
            [conflicts[i] EXCEPT !.detected_at = 0, !.status = "Unresolved",
                                 !.resolved_at = None]

\* What detection finds between two skills, compared in either order
FoundBetween(i, j) ==
  find_duplicates(i, content[i], j, content[j])
    \o find_contradictions(i, content[i], j, content[j])
    \o find_duplicates(j, content[j], i, content[i])
    \o find_contradictions(j, content[j], i, content[i])

\* C28: detect compares every pair of enabled skills with readable content
\* regardless of scope. Two skills in different scopes (the global scope and
\* a project, or two projects) are paired and a finding between them is
\* stored as a conflict, although no scope's skill list, and so no merged
\* output, holds both; resolving such a conflict with DisableSkillA or
\* DisableSkillB disables a skill of the other scope.
C28_DetectAcrossScopes ==
  /\ [][/\ (last'.op = "detect"
            /\ Cardinality({i \in DOMAIN skills : skills[i].enabled}) >= 2) =>
             \A i, j \in DOMAIN skills \cap DOMAIN content :
               (/\ i < j
                /\ skills[i].enabled /\ skills[j].enabled
                /\ skills[i].scope # skills[j].scope
                /\ FoundBetween(i, j) # <<>>)
                 => \E id \in DOMAIN conflicts' \ DOMAIN conflicts :
                      {conflicts'[id].skill_a_id, conflicts'[id].skill_b_id}
                        = {i, j}
        /\ (/\ last'.op = "resolve"
            /\ last'.result = "Ok"
            /\ last'.strategy \in {"DisableSkillA", "DisableSkillB"}) =>
             LET c == last'.loaded[1]
                 a == c.skill_a_id
                 b == c.skill_b_id
                 x == IF last'.strategy = "DisableSkillA" THEN a ELSE b
             IN  ({a, b} \subseteq DOMAIN skills
                    /\ skills[a].scope # skills[b].scope)
                   => /\ ~skills'[x].enabled
                      /\ \A i \in DOMAIN skills \ {x} : skills'[i] = skills[i]
       ]_vars
  /\ [](\A id \in DOMAIN conflicts :
          LET a == conflicts[id].skill_a_id
              b == conflicts[id].skill_b_id
          IN  (a \in DOMAIN skills /\ b \in DOMAIN skills
                 /\ skills[a].scope # skills[b].scope)
                => \A s \in Scopes :
                     ~({a, b} \subseteq Range(list_by_scope(skills, s))))

\* A conflict between a skill of one project and a skill of another was
\* detected and resolved with DisableSkillB, which disabled the skill of the
\* second project
C28_DisabledInOtherProject ==
  /\ last.op = "resolve"
  /\ last.strategy = "DisableSkillB"
  /\ last.result = "Ok"
  /\ LET a == last.loaded[1].skill_a_id
         b == last.loaded[1].skill_b_id
     IN  /\ skills[a].scope.kind = "Project"
         /\ skills[b].scope.kind = "Project"
         /\ skills[a].scope # skills[b].scope
         /\ skills[a].enabled
         /\ ~skills[b].enabled

SameLines(f, g) ==
  /\ f.skill_a_id = g.skill_a_id
  /\ f.skill_b_id = g.skill_b_id
  /\ f.line_a = g.line_a
  /\ f.line_b = g.line_b

\* C30: a pair of instruction lines, one of each skill, whose normalized
\* texts are equal and which is therefore reported as a Duplicate is never
\* also reported as Contradictory by the same detection pass, also when the
\* lines hold a pair word that is a substring of its antonym phrase ("must"
\* in "must not").
C30_DuplicateNotContradictory ==
  \A found \in {Detected(skills, content)} :
    \A i, j \in 1..Len(found) :
      (/\ SameLines(found[i], found[j])
       /\ found[i].conflict_type = "Duplicate"
       /\ normalize_instruction(found[i].content_a)
            = normalize_instruction(found[i].content_b))
        => found[j].conflict_type # "Contradictory"

\* One detection pass reports the line "- Must not use tabs", which both
\* skills hold, as a Duplicate and as a Contradictory finding of the pair
\* "must" / "must not"
C30_SameLineBothKinds ==
  \E found \in {Detected(skills, content)} :
    \E i, j \in 1..Len(found) :
      /\ SameLines(found[i], found[j])
      /\ found[i].conflict_type = "Duplicate"
      /\ found[j].conflict_type = "Contradictory"
      /\ found[i].content_a = found[i].content_b
      /\ found[j].content_a = found[i].content_a
      /\ found[j].content_b = found[i].content_a
      /\ found[j].description.words = contradiction_pairs[2]
      /\ contains(to_lowercase(found[i].content_a), contradiction_pairs[2][2])

====
